---- MODULE Spec2Model ----
(***************************************************************************)
(* A state-machine model of the alphalearn backend: src/app.py (the Flask  *)
(* handlers, the dictionary helper and the A-Z word-set build) and         *)
(* src/database.py (the sqlite data-access functions).                     *)
(*                                                                         *)
(* The specifications share the variables:                                 *)
(*   SpecWords   the word-set build of GET /api/words/<level>, one         *)
(*               external call per step;                                   *)
(*   SpecLookup  the build over entries of the definitions service of      *)
(*               several shapes;                                           *)
(*   SpecStore   POST /api/sessions statement by statement (two            *)
(*               connections, sqlite's write lock, commit and close) with  *)
(*               GET /api/sessions/<id>;                                   *)
(*   SpecStats   POST /api/sessions with GET /api/track;                   *)
(*   SpecList    POST /api/sessions with GET /api/sessions while the clock *)
(*               runs;                                                     *)
(*   SpecAuth    register (SELECT and INSERT interleaved between two       *)
(*               clients), login, logout and check_auth;                   *)
(*   SpecApp     every endpoint, with and without a session identity.      *)
(***************************************************************************)
EXTENDS Integers, Sequences, FiniteSets, TLC

VARIABLES
    users,            \* table user: sequence of rows, the row id is the index
    sess,             \* per client: the Flask session cookie
    req,              \* per client: the last request sent
    resp,             \* per client: the answer to it (NoResponse while in flight)
    wpc,              \* get_words: position of the request in progress
    level,            \* get_words: the <level> of the request in progress
    letterIdx,        \* get_words: index of `letter` in string.ascii_uppercase
    potential_words,  \* get_words: the candidate list of the current letter
    candIdx,          \* get_words: index of word_data in potential_words[:5]
    words_list,       \* get_words: the records appended so far
    wclient,          \* get_words: the client whose request is in progress
    calls,            \* the external calls the build has made, in order
    db,               \* the committed content of the sqlite file
    conn,             \* per client: the request's connection (g.db)
    created,          \* per committed session id: who submitted what
    now               \* CURRENT_TIMESTAMP, in seconds

vars == <<users, sess, req, resp, wpc, level, letterIdx, potential_words,
          candIdx, words_list, wclient, calls, db, conn, created, now>>

authVars  == <<users, sess>>
wordVars  == <<wpc, level, letterIdx, potential_words, candIdx, words_list,
               wclient, calls>>
storeVars == <<db, conn, created, now>>

(***************************************************************************)
(* Bounds of the model.                                                    *)
(***************************************************************************)
\* how many letters of string.ascii_uppercase the build loops over
NumLetters == 2
\* the longest candidate list the candidate source returns
MaxCands == 6
\* how many session rows the store may hold
MaxSessions == 3

(***************************************************************************)
(* Python values.  A JSON value is a tagged record [t, v]; a raised        *)
(* exception is [exc |-> its class]; None is PyNone.                       *)
(***************************************************************************)
JList(items) == [t |-> "list", v |-> items]
JObj(fields) == [t |-> "object", v |-> fields]
JStr(s)      == [t |-> "string", v |-> s]
JNum(n)      == [t |-> "number", v |-> n]
JNull        == [t |-> "null", v |-> 0]

Exc(class) == [exc |-> class]
IsExc(x)   == "exc" \in DOMAIN x
PyNone     == [none |-> TRUE]

\* x[0]
PyIndex0(x) ==
    IF IsExc(x) THEN x
    ELSE CASE x.t = "list"   -> IF Len(x.v) = 0 THEN Exc("IndexError") ELSE x.v[1]
           [] x.t = "object" -> Exc("KeyError")
           [] x.t = "string" -> x
           [] OTHER          -> Exc("TypeError")

\* x[key] for a string key
PyItem(x, key) ==
    IF IsExc(x) THEN x
    ELSE CASE x.t = "object" -> IF key \in DOMAIN x.v THEN x.v[key] ELSE Exc("KeyError")
           [] OTHER          -> Exc("TypeError")

\* key in x raises TypeError unless x is a container
PyInRaises(x) == x.t \notin {"object", "list", "string"}

\* key in x, for a container x (the strings and lists drawn here never hold
\* a key's text)
PyIn(key, x) == x.t = "object" /\ key \in DOMAIN x.v

\* bool(x)
Truthy(x) ==
    CASE x.t = "list"   -> Len(x.v) > 0
      [] x.t = "object" -> DOMAIN x.v # {}
      [] x.t = "number" -> x.v # 0
      [] x.t = "null"   -> FALSE
      [] OTHER          -> TRUE

\* for e in x: e[...]  -- the list whose elements the loop visits, or the
\* exception raised (a loop over an object's keys or a string's characters
\* raises TypeError at the first subscript of one; an empty one is an empty loop)
PyIter(x) ==
    IF IsExc(x) THEN x
    ELSE CASE x.t = "list"   -> x
           [] x.t = "object" -> IF DOMAIN x.v = {} THEN JList(<<>>) ELSE Exc("TypeError")
           [] x.t = "string" -> IF x.v = "" THEN JList(<<>>) ELSE Exc("TypeError")
           [] OTHER          -> Exc("TypeError")

(***************************************************************************)
(* Letters and text.  A string is <<kind, first, rest>>: for a word, its    *)
(* first character and a number standing for its lower-case remainder.     *)
(***************************************************************************)
ascii_uppercase ==
    <<"A", "B", "C", "D", "E", "F", "G", "H", "I", "J", "K", "L", "M",
      "N", "O", "P", "Q", "R", "S", "T", "U", "V", "W", "X", "Y", "Z">>

ascii_lowercase ==
    <<"a", "b", "c", "d", "e", "f", "g", "h", "i", "j", "k", "l", "m",
      "n", "o", "p", "q", "r", "s", "t", "u", "v", "w", "x", "y", "z">>

LetterPos(ch) == CHOOSE i \in 1..26 : ascii_uppercase[i] = ch \/ ascii_lowercase[i] = ch

\* letter.lower()
Lower(ch) == ascii_lowercase[LetterPos(ch)]

Word(first, rest) == <<"word", first, rest>>

\* word.capitalize()
capitalize(word) == <<word[1], ascii_uppercase[LetterPos(word[2])], word[3]>>

\* fallback_words[letter]: 'Apple', 'Brave', ... 'Zeal'
fallback_words(letter) == Word(letter, 0)

difficulty_params ==
    [beginner     |-> [md |-> "f", max |-> 1000],
     intermediate |-> [md |-> "f", max |-> 500],
     proficient   |-> [md |-> "f", max |-> 100]]

\* variant: difficulty_params.get(level) without the default, the query
\* then carrying no frequency ceiling (C15 must reject it)
params_NoDefault(lvl) ==
    IF lvl \in DOMAIN difficulty_params THEN difficulty_params[lvl]
    ELSE [md |-> "f", max |-> 0]

\* difficulty_params.get(level, difficulty_params['beginner'])
params(lvl) ==
    IF lvl \in DOMAIN difficulty_params THEN difficulty_params[lvl]
    ELSE difficulty_params["beginner"]

\* the letters the build loops over
Letters == SubSeq(ascii_uppercase, 1, NumLetters)

(***************************************************************************)
(* The external services.  An HTTP exchange ends in a transport error, a   *)
(* non-success status, or a 2xx response whose body parses to a JSON       *)
(* value.                                                                  *)
(***************************************************************************)
TransportError == [kind |-> "transport_error", json |-> JNull]
HttpStatus404  == [kind |-> "status_404", json |-> JNull]
HttpOk(json)   == [kind |-> "ok", json |-> json]

\* requests.get(...); response.raise_for_status(); response.json()
HttpJson(response) ==
    IF response.kind = "ok" THEN response.json ELSE Exc("RequestException")

NoExample == JStr(<<"No example sentence found.", "", 0>>)

\* app.py:38-41, the inner loop from definition i on: the value of `example`
\* when the loop ends, or the exception it raises
RECURSIVE ScanDefinitions(_, _, _)
ScanDefinitions(defs, i, example) ==
    IF i > Len(defs) THEN example
    ELSE IF PyInRaises(defs[i]) THEN Exc("TypeError")
    ELSE IF PyIn("example", defs[i]) THEN PyItem(defs[i], "example")
    ELSE ScanDefinitions(defs, i + 1, example)

\* app.py:37-43, the outer loop from meaning i on
RECURSIVE ScanMeanings(_, _, _)
ScanMeanings(meanings, i, example) ==
    IF i > Len(meanings) THEN example
    ELSE LET defs == PyIter(PyItem(meanings[i], "definitions")) IN
         IF IsExc(defs) THEN defs
         ELSE LET found == ScanDefinitions(defs.v, 1, example) IN
              IF IsExc(found) THEN found
              ELSE IF found # NoExample THEN found
              ELSE ScanMeanings(meanings, i + 1, found)

\* the body of the try block of get_word_details: the record, or the
\* exception raised
WordDetailsTry(word, response) ==
    LET data     == PyIndex0(HttpJson(response))
        meaning  == PyItem(PyIndex0(PyItem(PyIndex0(PyItem(data, "meanings")),
                                           "definitions")), "definition")
        meanings == PyIter(PyItem(data, "meanings"))
        example  == IF IsExc(meanings) THEN meanings
                    ELSE ScanMeanings(meanings.v, 1, NoExample)
    IN  IF IsExc(meaning) THEN meaning
        ELSE IF IsExc(example) THEN example
        ELSE [word |-> capitalize(word), meaning |-> meaning, example |-> example]

\* the exception classes get_word_details catches
LookupCaught == {"RequestException", "KeyError", "IndexError"}

\* get_word_details(word): the record, None, or the exception that escapes
get_word_details(word, response) ==
    LET r == WordDetailsTry(word, response) IN
    IF IsExc(r) /\ r.exc \in LookupCaught THEN PyNone ELSE r

(***************************************************************************)
(* HTTP: clients, the session cookie, responses.                           *)
(***************************************************************************)
Clients == {"c1", "c2"}

NoSession == [anon |-> TRUE]

\* 'user_id' in session
Authenticated(c) == "user_id" \in DOMAIN sess[c]

Response(status, body) == [status |-> status, body |-> body]
NoResponse   == Response(0, [none |-> TRUE])
AuthRequired == Response(401, [error |-> "Authentication required."])

Reply(c, r) == resp' = [resp EXCEPT ![c] = r]

\* session['user_id'], 0 for a request without one
UserOf(c) == IF Authenticated(c) THEN sess[c].user_id ELSE 0

\* client c sends a request; `what` holds its route and arguments
Send(c, what) == req' = [req EXCEPT ![c] = what]

\* the uncommitted rows of a connection that has written nothing
NoRows == [session |-> <<>>, word |-> <<>>, quiz |-> <<>>]

\* g.db after close_db
Closed == [pc |-> "closed"]

\* the connections of the other requests that hold uncommitted rows
Writers(c) == {d \in Clients \ {c} : conn[d].pc # "closed" /\ conn[d].pending # NoRows}

\* a client sends a request when it has received the answer to its last one
Idle(c) ==
    /\ wpc \in {"candidates", "probe", "fallback"} => wclient # c
    /\ conn[c].pc = "closed"

(***************************************************************************)
(* Authentication (app.py:62-118).  login, logout and check_auth are one   *)
(* step each; register is two, its SELECT and its INSERT with the commit,  *)
(* so that the registrations of two clients interleave.                    *)
(***************************************************************************)
generate_password_hash(password) == [method |-> "pbkdf2", digest |-> <<"H", password>>]
check_password_hash(pwhash, password) == pwhash.digest = <<"H", password>>

\* SELECT ... FROM user WHERE username = ? -- the ids of the matching rows
UserIds(username) == {i \in 1..Len(users) : users[i].username = username}

\* the table user declares username UNIQUE: an INSERT of a username that a
\* committed row holds raises sqlite3.IntegrityError
UniqueViolation(username) == UserIds(username) # {}

\* variant: a taken username has its password replaced (C11 must reject it)
register_Replaces(c, username, password) ==
    /\ Idle(c)
    /\ Send(c, [route |-> "register", user |-> UserOf(c),
                username |-> username, password |-> password])
    /\ IF username = "" \/ password = ""
       THEN /\ Reply(c, Response(400, [error |-> "Username and password are required."]))
            /\ UNCHANGED <<conn, users>>
       ELSE IF UserIds(username) # {}
       THEN /\ users' = [i \in 1..Len(users) |->
                            IF i \in UserIds(username)
                            THEN [users[i] EXCEPT !.password = generate_password_hash(password)]
                            ELSE users[i]]
            /\ Reply(c, Response(201, [message |-> "Registration successful!"]))
            /\ UNCHANGED conn
       ELSE /\ Reply(c, NoResponse)
            /\ conn' = [conn EXCEPT ![c] =
                           [pc |-> "insert_user", username |-> username,
                            password |-> password, pending |-> NoRows]]
            /\ UNCHANGED users
    /\ UNCHANGED <<db, created, now, sess, wordVars>>

\* app.py:65-74: the arguments, get_db(), the two early returns
register(c, username, password) ==
    /\ Idle(c)
    /\ Send(c, [route |-> "register", user |-> UserOf(c),
                username |-> username, password |-> password])
    /\ IF username = "" \/ password = ""
       THEN /\ Reply(c, Response(400, [error |-> "Username and password are required."]))
            /\ UNCHANGED conn
       ELSE IF UserIds(username) # {}
       THEN /\ Reply(c, Response(409, [error |-> "User is already registered."]))
            /\ UNCHANGED conn
       ELSE /\ Reply(c, NoResponse)
            /\ conn' = [conn EXCEPT ![c] =
                           [pc |-> "insert_user", username |-> username,
                            password |-> password, pending |-> NoRows]]
    /\ UNCHANGED <<db, created, now, authVars, wordVars>>

\* variant: INSERT OR IGNORE, so a username taken in the meantime is passed
\* over and the handler still answers 201 (C19 must reject it)
InsertUser_IgnoresConflict(c, stored) ==
    /\ conn[c].pc = "insert_user"
    /\ IF UniqueViolation(conn[c].username)
       THEN /\ Reply(c, Response(201, [message |-> "Registration successful!"]))
            /\ UNCHANGED users
       ELSE IF Writers(c) # {} \/ ~stored
       THEN /\ Reply(c, Response(500, [error |-> "OperationalError"]))
            /\ UNCHANGED users
       ELSE /\ users' = Append(users, [username |-> conn[c].username,
                                       password |-> generate_password_hash(conn[c].password)])
            /\ Reply(c, Response(201, [message |-> "Registration successful!"]))
    /\ conn' = [conn EXCEPT ![c] = Closed]
    /\ UNCHANGED <<db, created, now, req, sess, wordVars>>

\* variant: a successful registration also logs the new user in (C18 must
\* reject it)
InsertUser_LogsIn(c, stored) ==
    /\ conn[c].pc = "insert_user"
    /\ IF UniqueViolation(conn[c].username)
       THEN /\ Reply(c, Response(500, [error |-> "IntegrityError"]))
            /\ UNCHANGED <<users, sess>>
       ELSE IF Writers(c) # {} \/ ~stored
       THEN /\ Reply(c, Response(500, [error |-> "OperationalError"]))
            /\ UNCHANGED <<users, sess>>
       ELSE /\ users' = Append(users, [username |-> conn[c].username,
                                       password |-> generate_password_hash(conn[c].password)])
            /\ sess' = [sess EXCEPT ![c] = [user_id |-> Len(users) + 1,
                                            username |-> conn[c].username]]
            /\ Reply(c, Response(201, [message |-> "Registration successful!"]))
    /\ conn' = [conn EXCEPT ![c] = Closed]
    /\ UNCHANGED <<db, created, now, req, wordVars>>

\* app.py:76-81: INSERT INTO user, db.commit() and the 201; an exception of
\* sqlite (the UNIQUE constraint, the lock of another writer, a failed
\* write) leaves the handler and the request ends in a 500.  close_db
\* closes the connection either way.
InsertUser(c, stored) ==
    /\ conn[c].pc = "insert_user"
    /\ IF UniqueViolation(conn[c].username)
       THEN /\ Reply(c, Response(500, [error |-> "IntegrityError"]))
            /\ UNCHANGED users
       ELSE IF Writers(c) # {} \/ ~stored
       THEN /\ Reply(c, Response(500, [error |-> "OperationalError"]))
            /\ UNCHANGED users
       ELSE /\ users' = Append(users, [username |-> conn[c].username,
                                       password |-> generate_password_hash(conn[c].password)])
            /\ Reply(c, Response(201, [message |-> "Registration successful!"]))
    /\ conn' = [conn EXCEPT ![c] = Closed]
    /\ UNCHANGED <<db, created, now, req, sess, wordVars>>

\* variant: the session is set as soon as the user row is found, before the
\* password is checked (C12 must reject it)
login_SessionBeforeCheck(c, username, password) ==
    /\ Idle(c)
    /\ Send(c, [route |-> "login", user |-> UserOf(c),
                username |-> username, password |-> password])
    /\ LET ids == UserIds(username) IN
       IF ids = {}
       THEN /\ Reply(c, Response(401, [error |-> "Incorrect username."]))
            /\ UNCHANGED sess
       ELSE LET id == CHOOSE i \in ids : \A j \in ids : i <= j IN
            /\ sess' = [sess EXCEPT ![c] = [user_id |-> id, username |-> users[id].username]]
            /\ IF ~check_password_hash(users[id].password, password)
               THEN Reply(c, Response(401, [error |-> "Incorrect password."]))
               ELSE Reply(c, Response(200, [message |-> "Welcome back", username |-> users[id].username]))
    /\ UNCHANGED <<users, wordVars, storeVars>>

\* app.py:83-105
login(c, username, password) ==
    /\ Idle(c)
    /\ Send(c, [route |-> "login", user |-> UserOf(c),
                username |-> username, password |-> password])
    /\ LET ids == UserIds(username) IN
       IF ids = {}
       THEN /\ Reply(c, Response(401, [error |-> "Incorrect username."]))
            /\ UNCHANGED sess
       ELSE LET id == CHOOSE i \in ids : \A j \in ids : i <= j IN
            IF ~check_password_hash(users[id].password, password)
            THEN /\ Reply(c, Response(401, [error |-> "Incorrect password."]))
                 /\ UNCHANGED sess
            ELSE /\ sess' = [sess EXCEPT ![c] = [user_id |-> id, username |-> users[id].username]]
                 /\ Reply(c, Response(200, [message |-> "Welcome back", username |-> users[id].username]))
    /\ UNCHANGED <<users, wordVars, storeVars>>

logout(c) ==
    /\ Idle(c)
    /\ Send(c, [route |-> "logout", user |-> UserOf(c)])
    /\ sess' = [sess EXCEPT ![c] = NoSession]
    /\ Reply(c, Response(200, [message |-> "Logged out successfully."]))
    /\ UNCHANGED <<users, wordVars, storeVars>>

\* app.py:113-118
check_auth(c) ==
    /\ Idle(c)
    /\ Send(c, [route |-> "check_auth", user |-> UserOf(c)])
    /\ Reply(c, Response(200, IF Authenticated(c)
                              THEN [isAuthenticated |-> TRUE, username |-> sess[c].username]
                              ELSE [isAuthenticated |-> FALSE]))
    /\ UNCHANGED <<authVars, wordVars, storeVars>>

(***************************************************************************)
(* The word-set build, get_words (app.py:122-177).  One request is in      *)
(* flight at a time (the build shares no state with another); each step    *)
(* ends at the next external call.  word_found is the position: it is True *)
(* exactly when the loop has moved on without the fallback.                *)
(***************************************************************************)
\* potential_words[:5]
ProbeLimit == 5

Min(a, b) == IF a < b THEN a ELSE b

\* variant: the whole candidate list is probed (C4 must reject it)
FirstFew_Unsliced(list) == list

FirstFew(list) == SubSeq(list, 1, Min(ProbeLimit, Len(list)))

letter == Letters[letterIdx]

\* api_params = {'sp': f'{letter.lower()}*', **params}
api_params(l, lvl) == [sp |-> <<Lower(l), "*">>, md |-> params(lvl).md, max |-> params(lvl).max]

IsNone(x) == "none" \in DOMAIN x

Outcome(details) ==
    IF IsExc(details) THEN "raised" ELSE IF IsNone(details) THEN "none" ELSE "record"

LookupCall(word, details) ==
    [svc |-> "lookup", letter |-> letter, word |-> word, out |-> Outcome(details)]

\* variant: the record is stamped with the lower-cased letter of the query
\* pattern (C1 must reject it)
Stamp_Lower(details, l) ==
    [letter |-> Lower(l), word |-> details.word, meaning |-> details.meaning,
     example |-> details.example]

\* details['letter'] = letter
Stamp(details, l) ==
    [letter |-> l, word |-> details.word, meaning |-> details.meaning,
     example |-> details.example]

\* the for loop takes its next letter, or ends and the handler returns
\* jsonify(words_list)
NextLetter(list) ==
    /\ words_list' = list
    /\ potential_words' = <<>>
    /\ candIdx' = 1
    /\ IF letterIdx < Len(Letters)
       THEN /\ letterIdx' = letterIdx + 1
            /\ wpc' = "candidates"
            /\ UNCHANGED resp
       ELSE /\ letterIdx' = letterIdx
            /\ wpc' = "done"
            /\ Reply(wclient, Response(200, [json |-> list]))

\* an exception leaves get_words: the request ends in a 500
Escape(e) ==
    /\ wpc' = "error"
    /\ Reply(wclient, Response(500, [error |-> e.exc]))
    /\ UNCHANGED <<letterIdx, potential_words, candIdx, words_list>>

\* app.py:123-148
get_words(c, lvl) ==
    /\ Idle(c)
    /\ Send(c, [route |-> "words", user |-> UserOf(c), level |-> lvl])
    /\ wpc \in {"idle", "done", "error"}
    /\ IF ~Authenticated(c)
       THEN /\ Reply(c, AuthRequired)
            /\ UNCHANGED wordVars
       ELSE /\ wpc' = "candidates"
            /\ wclient' = c
            /\ level' = lvl
            /\ letterIdx' = 1
            /\ potential_words' = <<>>
            /\ candIdx' = 1
            /\ words_list' = <<>>
            /\ calls' = <<>>
            /\ Reply(c, NoResponse)
    /\ UNCHANGED <<authVars, storeVars>>

\* variant: an empty or failed candidate query moves on to the next letter
\* without the fallback (C2 must reject it)
FetchCandidates_NoFallback(response) ==
    /\ wpc = "candidates"
    /\ LET body == HttpJson(response) IN
       /\ calls' = Append(calls, [svc |-> "candidates", letter |-> letter,
                                  query |-> api_params(letter, level),
                                  out |-> IF IsExc(body) THEN "raised" ELSE "json"])
       /\ IF IsExc(body) \/ ~Truthy(body)
          THEN NextLetter(words_list)
          ELSE IF body.t # "list"
          THEN Escape(Exc("TypeError"))
          ELSE /\ potential_words' = body.v
               /\ candIdx' = 1
               /\ wpc' = "probe"
               /\ UNCHANGED <<letterIdx, words_list, resp>>
    /\ UNCHANGED <<level, wclient, req, authVars, storeVars>>

\* app.py:150-158 and 167-168: the candidate query of the current letter
FetchCandidates(response) ==
    /\ wpc = "candidates"
    /\ LET body == HttpJson(response) IN
       /\ calls' = Append(calls, [svc |-> "candidates", letter |-> letter,
                                  query |-> api_params(letter, level),
                                  out |-> IF IsExc(body) THEN "raised" ELSE "json"])
       /\ IF IsExc(body) \/ ~Truthy(body)
          THEN /\ wpc' = "fallback"
               /\ UNCHANGED <<letterIdx, potential_words, candIdx, words_list, resp>>
          ELSE IF body.t # "list"
          THEN Escape(Exc("TypeError"))
          ELSE /\ potential_words' = body.v
               /\ candIdx' = 1
               /\ wpc' = "probe"
               /\ UNCHANGED <<letterIdx, words_list, resp>>
    /\ UNCHANGED <<level, wclient, req, authVars, storeVars>>

\* app.py:160-166: one iteration of the loop over potential_words[:5]
Probe(response) ==
    /\ wpc = "probe"
    /\ LET word == PyItem(FirstFew(potential_words)[candIdx], "word") IN
       IF IsExc(word)
       THEN Escape(word) /\ UNCHANGED calls
       ELSE LET details == get_word_details(word.v, response) IN
            /\ calls' = Append(calls, LookupCall(word.v, details))
            /\ IF IsExc(details) THEN Escape(details)
               ELSE IF ~IsNone(details)
               THEN NextLetter(Append(words_list, Stamp(details, letter)))
               ELSE IF candIdx < Len(FirstFew(potential_words))
               THEN /\ candIdx' = candIdx + 1
                    /\ UNCHANGED <<wpc, letterIdx, potential_words, words_list, resp>>
               ELSE /\ wpc' = "fallback"
                    /\ UNCHANGED <<letterIdx, potential_words, candIdx, words_list, resp>>
    /\ UNCHANGED <<level, wclient, req, authVars, storeVars>>

\* variant: the fallback's record is stamped without the `if details:` test,
\* so a None raises TypeError (C3 must reject it)
Fallback_NoNoneTest(response) ==
    /\ wpc = "fallback"
    /\ LET details == get_word_details(fallback_words(letter), response) IN
       /\ calls' = Append(calls, LookupCall(fallback_words(letter), details))
       /\ IF IsExc(details) THEN Escape(details)
          ELSE IF ~IsNone(details)
          THEN NextLetter(Append(words_list, Stamp(details, letter)))
          ELSE Escape(Exc("TypeError"))
    /\ UNCHANGED <<level, wclient, req, authVars, storeVars>>

\* app.py:170-175: the fallback word of the current letter
Fallback(response) ==
    /\ wpc = "fallback"
    /\ LET details == get_word_details(fallback_words(letter), response) IN
       /\ calls' = Append(calls, LookupCall(fallback_words(letter), details))
       /\ IF IsExc(details) THEN Escape(details)
          ELSE IF ~IsNone(details)
          THEN NextLetter(Append(words_list, Stamp(details, letter)))
          ELSE NextLetter(words_list)
    /\ UNCHANGED <<level, wclient, req, authVars, storeVars>>

(***************************************************************************)
(* What the external services may answer.                                  *)
(***************************************************************************)
Candidate(l, j) == JObj([word |-> JStr(Word(Lower(l), j)), score |-> JNum(j)])

\* the word-association service: an error, a ranked list of 0..MaxCands
\* words, a list whose entry has no 'word', a JSON object
CandidateResponses(l) ==
    {TransportError, HttpStatus404}
    \cup {HttpOk(JList([j \in 1..n |-> Candidate(l, j)])) : n \in 0..MaxCands}
    \cup {HttpOk(JList(<<JObj([score |-> JNum(1)])>>)),
          HttpOk(JObj([message |-> JStr(<<"error", "", 0>>)]))}

Definition(word, withExample) ==
    IF withExample
    THEN JObj([definition |-> JStr(<<"meaning", word[2], word[3]>>),
               example |-> JStr(<<"example", word[2], word[3]>>)])
    ELSE JObj([definition |-> JStr(<<"meaning", word[2], word[3]>>)])

Entry(word, withExample) ==
    JObj([word |-> JStr(word),
          meanings |-> JList(<<JObj([definitions |-> JList(<<Definition(word, withExample)>>)])>>)])

\* the definitions service: an error, an entry, an empty list, an entry
\* without meanings, a list of strings
LookupResponses(word) ==
    {TransportError, HttpStatus404,
     HttpOk(JList(<<Entry(word, TRUE)>>)),
     HttpOk(JList(<<>>)),
     HttpOk(JList(<<JObj([word |-> JStr(word)])>>)),
     HttpOk(JList(<<JStr(word)>>))}

(***************************************************************************)
(* json.dumps and json.loads (database.py:64, 106).  The text is a         *)
(* sequence of tokens: punctuation, and one token per scalar.              *)
(***************************************************************************)
JTrue  == [t |-> "true", v |-> 0]
JFalse == [t |-> "false", v |-> 0]

Tok(kind, val) == [tok |-> kind, val |-> val]

Punct(ch) == Tok(ch, 0)

\* the keys of an object, in the order they are written
RECURSIVE KeySeq(_)
KeySeq(keys) ==
    IF keys = {} THEN <<>>
    ELSE LET k == CHOOSE x \in keys : TRUE IN <<k>> \o KeySeq(keys \ {k})

RECURSIVE json_dumps(_), DumpItems(_, _), DumpMembers(_, _)
json_dumps(x) ==
    CASE x.t = "list"   -> <<Punct("[")>> \o DumpItems(x.v, 1) \o <<Punct("]")>>
      [] x.t = "object" -> <<Punct("{")>> \o DumpMembers(x.v, KeySeq(DOMAIN x.v))
                                \o <<Punct("}")>>
      [] OTHER          -> <<Tok(x.t, x.v)>>

DumpItems(items, i) ==
    IF i > Len(items) THEN <<>>
    ELSE json_dumps(items[i])
         \o (IF i < Len(items) THEN <<Punct(",")>> ELSE <<>>)
         \o DumpItems(items, i + 1)

DumpMembers(fields, keys) ==
    IF keys = <<>> THEN <<>>
    ELSE <<Tok("string", Head(keys)), Punct(":")>> \o json_dumps(fields[Head(keys)])
         \o (IF Len(keys) > 1 THEN <<Punct(",")>> ELSE <<>>)
         \o DumpMembers(fields, Tail(keys))

\* the parsers return [val, next]: the value read and the position after it
RECURSIVE ParseValue(_, _), ParseItems(_, _, _), ParseMembers(_, _, _)
ParseValue(text, i) ==
    CASE text[i].tok = "[" ->
            IF text[i + 1].tok = "]" THEN [val |-> JList(<<>>), next |-> i + 2]
            ELSE ParseItems(text, i + 1, <<>>)
      [] text[i].tok = "{" ->
            IF text[i + 1].tok = "}" THEN [val |-> JObj(<<>>), next |-> i + 2]
            ELSE ParseMembers(text, i + 1, <<>>)
      [] OTHER -> [val |-> [t |-> text[i].tok, v |-> text[i].val], next |-> i + 1]

ParseItems(text, i, acc) ==
    LET item == ParseValue(text, i) IN
    IF text[item.next].tok = ","
    THEN ParseItems(text, item.next + 1, Append(acc, item.val))
    ELSE [val |-> JList(Append(acc, item.val)), next |-> item.next + 1]

ParseMembers(text, i, acc) ==
    LET member == ParseValue(text, i + 2)
        fields == [k \in DOMAIN acc \cup {text[i].val} |->
                      IF k = text[i].val THEN member.val ELSE acc[k]]
    IN  IF text[member.next].tok = ","
        THEN ParseMembers(text, member.next + 1, fields)
        ELSE [val |-> JObj(fields), next |-> member.next + 1]

json_loads(text) == ParseValue(text, 1).val

(***************************************************************************)
(* The session store (database.py).  db is what a new connection reads;    *)
(* a connection's uncommitted rows are its own until commit, and close     *)
(* drops them.  sqlite admits one writing connection at a time.            *)
(***************************************************************************)
SessionFields == {"mode", "scorePercent"}
WordFields    == {"letter", "word", "meaning", "example"}

\* words_to_insert (database.py:53-56)
words_to_insert(session_id, words) ==
    [i \in 1..Len(words) |->
        [session_id |-> session_id, letter |-> words[i].letter,
         word_text |-> words[i].word, meaning |-> words[i].meaning,
         example |-> words[i].example]]

\* an exception leaves save_session_data: the request will end in a 500
Abort(c) == conn' = [conn EXCEPT ![c].pc = "teardown", ![c].status = 500]

\* the request of d is inside save_session_data
Saving(d) == conn[d].pc \notin {"closed", "insert_user"}

\* app.py:179-186: the auth check, then get_db() opens the connection
save_session(c, data) ==
    /\ Idle(c)
    /\ Len(db.session) + Cardinality({d \in Clients : Saving(d)}) < MaxSessions
    /\ Send(c, [route |-> "save", user |-> UserOf(c), data |-> data])
    /\ IF ~Authenticated(c)
       THEN /\ Reply(c, AuthRequired)
            /\ UNCHANGED conn
       ELSE /\ Reply(c, NoResponse)
            /\ conn' = [conn EXCEPT ![c] =
                           [pc |-> "insert_session", user_id |-> sess[c].user_id,
                            data |-> data, session_id |-> 0, pending |-> NoRows,
                            status |-> 0]]
    /\ UNCHANGED <<db, created, now, authVars, wordVars>>

\* database.py:46-50: INSERT INTO session; stored says whether sqlite
\* carried the statement out
InsertSession(c, stored) ==
    /\ conn[c].pc = "insert_session"
    /\ IF ~(SessionFields \subseteq DOMAIN conn[c].data) \/ Writers(c) # {} \/ ~stored
       THEN Abort(c)
       ELSE LET id == Len(db.session) + 1 IN
            conn' = [conn EXCEPT
                ![c].pc = "insert_words",
                ![c].session_id = id,
                ![c].pending.session =
                    <<[id |-> id, user_id |-> conn[c].user_id,
                       mode |-> conn[c].data.mode,
                       score_percent |-> conn[c].data.scorePercent,
                       date |-> now]>>]
    /\ UNCHANGED <<db, created, now, req, resp, authVars, wordVars>>

\* database.py:53-60: the list is built, then executemany inserts its rows
\* one by one; sqlite carries out the first n of them
InsertWords(c, n) ==
    /\ conn[c].pc = "insert_words"
    /\ IF \/ "words" \notin DOMAIN conn[c].data
          \/ \E i \in 1..Len(conn[c].data.words) :
                ~(WordFields \subseteq DOMAIN conn[c].data.words[i])
       THEN Abort(c)
       ELSE LET rows == words_to_insert(conn[c].session_id, conn[c].data.words) IN
            /\ n <= Len(rows)
            /\ conn' = [conn EXCEPT
                  ![c].pc = IF n = Len(rows) THEN "insert_quiz" ELSE "teardown",
                  ![c].status = IF n = Len(rows) THEN 0 ELSE 500,
                  ![c].pending.word = SubSeq(rows, 1, n)]
    /\ UNCHANGED <<db, created, now, req, resp, authVars, wordVars>>

\* database.py:64-68: INSERT INTO quiz
InsertQuiz(c, stored) ==
    /\ conn[c].pc = "insert_quiz"
    /\ IF "quiz" \notin DOMAIN conn[c].data \/ ~stored
       THEN Abort(c)
       ELSE conn' = [conn EXCEPT
                ![c].pc = "commit",
                ![c].pending.quiz =
                    <<[session_id |-> conn[c].session_id,
                       quiz_data |-> json_dumps(conn[c].data.quiz)]>>]
    /\ UNCHANGED <<db, created, now, req, resp, authVars, wordVars>>

\* variant: the commit rewrites the tables with the rows of this session
\* (C17 must reject it)
Commit_Overwrites(c, stored) ==
    /\ conn[c].pc = "commit"
    /\ IF ~stored
       THEN Abort(c) /\ UNCHANGED <<db, created>>
       ELSE /\ db' = conn[c].pending
            /\ created' = Append(created, [user |-> conn[c].user_id, data |-> conn[c].data])
            /\ conn' = [conn EXCEPT ![c].pc = "teardown", ![c].status = 201,
                                    ![c].pending = NoRows]
    /\ UNCHANGED <<now, req, resp, authVars, wordVars>>

\* database.py:70 and app.py:190: db.commit(), then the handler returns 201
Commit(c, stored) ==
    /\ conn[c].pc = "commit"
    /\ IF ~stored
       THEN Abort(c) /\ UNCHANGED <<db, created>>
       ELSE /\ db' = [session |-> db.session \o conn[c].pending.session,
                      word    |-> db.word \o conn[c].pending.word,
                      quiz    |-> db.quiz \o conn[c].pending.quiz]
            /\ created' = Append(created, [user |-> conn[c].user_id, data |-> conn[c].data])
            /\ conn' = [conn EXCEPT ![c].pc = "teardown", ![c].status = 201,
                                    ![c].pending = NoRows]
    /\ UNCHANGED <<now, req, resp, authVars, wordVars>>

\* variant: closing the connection commits what it holds (C6 must reject it)
close_db_Commits(c) ==
    /\ conn[c].pc = "teardown"
    /\ conn' = [conn EXCEPT ![c] = Closed]
    /\ db' = [session |-> db.session \o conn[c].pending.session,
              word    |-> db.word \o conn[c].pending.word,
              quiz    |-> db.quiz \o conn[c].pending.quiz]
    /\ Reply(c, IF conn[c].status = 201
                THEN Response(201, [message |-> "Session saved successfully."])
                ELSE Response(500, [error |-> "Internal Server Error"]))
    /\ UNCHANGED <<created, now, req, authVars, wordVars>>

\* close_db (database.py:15-19) at the end of the request: db.close()
\* drops what the connection has not committed; the client gets its answer
close_db(c) ==
    /\ conn[c].pc = "teardown"
    /\ conn' = [conn EXCEPT ![c] = Closed]
    /\ Reply(c, IF conn[c].status = 201
                THEN Response(201, [message |-> "Session saved successfully."])
                ELSE Response(500, [error |-> "Internal Server Error"]))
    /\ UNCHANGED <<db, created, now, req, authVars, wordVars>>

\* the detail record get_session_details builds from the rows selected
DetailOf(session, words, quiz) ==
    IF session = <<>> THEN PyNone
    ELSE [id |-> session[1].id,
          mode |-> session[1].mode,
          scorePercent |-> session[1].score_percent,
          dateISO |-> session[1].date,
          words |-> [i \in 1..Len(words) |->
                        [letter |-> words[i].letter, word_text |-> words[i].word_text,
                         meaning |-> words[i].meaning, example |-> words[i].example]],
          quiz |-> IF quiz # <<>> THEN json_loads(quiz[1].quiz_data) ELSE JList(<<>>)]

\* variant: the session is selected by id alone (C8 must reject it)
get_session_details_AnyOwner(user_id, session_id) ==
    DetailOf(SelectSeq(db.session, LAMBDA r : r.id = session_id),
             SelectSeq(db.word, LAMBDA r : r.session_id = session_id),
             SelectSeq(db.quiz, LAMBDA r : r.session_id = session_id))

\* the three SELECTs of get_session_details on the committed content d
SessionDetailsIn(d, user_id, session_id) ==
    DetailOf(SelectSeq(d.session, LAMBDA r : r.id = session_id /\ r.user_id = user_id),
             SelectSeq(d.word, LAMBDA r : r.session_id = session_id),
             SelectSeq(d.quiz, LAMBDA r : r.session_id = session_id))

\* get_session_details (database.py:81-107)
get_session_details(user_id, session_id) == SessionDetailsIn(db, user_id, session_id)

NotFound == Response(404, [error |-> "Session not found or access denied."])

\* variant: the handler reads session.get('user_id') without the test for a
\* session identity (C13 must reject it)
get_session_detail_NoAuthCheck(c, session_id) ==
    /\ Idle(c)
    /\ Send(c, [route |-> "detail", user |-> UserOf(c), id |-> session_id])
    /\ LET session_details == get_session_details(UserOf(c), session_id) IN
       IF ~IsNone(session_details)
       THEN Reply(c, Response(200, [detail |-> session_details]))
       ELSE Reply(c, NotFound)
    /\ UNCHANGED <<storeVars, authVars, wordVars>>

\* app.py:202-212.  The three SELECTs are one step: no statement of this
\* program changes or deletes a committed row, and a commit adds a
\* session's rows at once.
get_session_detail(c, session_id) ==
    /\ Idle(c)
    /\ Send(c, [route |-> "detail", user |-> UserOf(c), id |-> session_id])
    /\ IF ~Authenticated(c)
       THEN Reply(c, AuthRequired)
       ELSE LET session_details == get_session_details(sess[c].user_id, session_id) IN
            IF ~IsNone(session_details)
            THEN Reply(c, Response(200, [detail |-> session_details]))
            ELSE Reply(c, NotFound)
    /\ UNCHANGED <<storeVars, authVars, wordVars>>

levels == <<"beginner", "intermediate", "proficient">>

SqlNull == [null |-> TRUE]

RECURSIVE SumScores(_)
SumScores(rows) ==
    IF rows = <<>> THEN 0 ELSE Head(rows).score_percent + SumScores(Tail(rows))

\* AVG(score_percent): NULL over no row, else the quotient num / den
SqlAvg(rows) ==
    IF rows = <<>> THEN SqlNull ELSE [num |-> SumScores(rows), den |-> Len(rows)]

\* round(x) of a float x = num / den, num >= 0: to the nearest integer, a
\* tie to the even one
round(x) ==
    LET q == x.num \div x.den
        r == x.num % x.den
    IN  IF 2 * r < x.den THEN q
        ELSE IF 2 * r > x.den THEN q + 1
        ELSE IF q % 2 = 0 THEN q ELSE q + 1

\* variant: the sessions of every user are averaged (C10 must reject it)
LevelStats_AllUsers(user_id, lvl) ==
    LET rows    == SelectSeq(db.session, LAMBDA r : r.mode = lvl)
        average == SqlAvg(rows)
    IN  [average |-> IF average # SqlNull THEN round(average) ELSE 0,
         count   |-> Len(rows)]

\* database.py:115-123, one level
LevelStats(user_id, lvl) ==
    LET rows    == SelectSeq(db.session, LAMBDA r : r.user_id = user_id /\ r.mode = lvl)
        average == SqlAvg(rows)
    IN  [average |-> IF average # SqlNull THEN round(average) ELSE 0,
         count   |-> Len(rows)]

\* variant: one GROUP BY mode query, so a level without a session has no
\* entry (C9 must reject it)
get_tracking_stats_GroupBy(user_id) ==
    [lvl \in {levels[i] : i \in 1..Len(levels)}
              \cap {db.session[i].mode : i \in {k \in 1..Len(db.session) :
                                                   db.session[k].user_id = user_id}}
        |-> LevelStats(user_id, lvl)]

\* get_tracking_stats (database.py:109-124)
get_tracking_stats(user_id) ==
    [lvl \in {levels[i] : i \in 1..Len(levels)} |-> LevelStats(user_id, lvl)]

\* app.py:214-222
get_tracking_data(c) ==
    /\ Idle(c)
    /\ Send(c, [route |-> "track", user |-> UserOf(c)])
    /\ IF ~Authenticated(c)
       THEN Reply(c, AuthRequired)
       ELSE Reply(c, Response(200, [stats |-> get_tracking_stats(sess[c].user_id)]))
    /\ UNCHANGED <<storeVars, authVars, wordVars>>

\* the last second CURRENT_TIMESTAMP reaches
MaxTime == 2

\* the clock of CURRENT_TIMESTAMP (database.py:47) passes a second
Tick ==
    /\ now < MaxTime
    /\ now' = now + 1
    /\ UNCHANGED <<db, conn, created, req, resp, authVars, wordVars>>

\* strftime("%Y-%m-%d %H:%M", date): the timestamp cut to its minute
strftime_minute(date) == date \div 60

\* the orders in which ORDER BY date DESC may return rows: the later date
\* first, rows of one date in either order
DateDescOrders(rows) ==
    {order \in [1..Len(rows) -> 1..Len(rows)] :
        /\ \A i, j \in 1..Len(rows) : order[i] = order[j] => i = j
        /\ \A i, j \in 1..Len(rows) : i < j => rows[order[i]].date >= rows[order[j]].date}

\* get_user_sessions (database.py:72-79), the rows in the order sqlite
\* returns them
get_user_sessions(user_id, order) ==
    LET rows == SelectSeq(db.session, LAMBDA r : r.user_id = user_id) IN
    [i \in 1..Len(rows) |->
        [id |-> rows[order[i]].id, mode |-> rows[order[i]].mode,
         score_percent |-> rows[order[i]].score_percent,
         date_formatted |-> strftime_minute(rows[order[i]].date)]]

\* app.py:192-200
get_sessions(c) ==
    /\ Idle(c)
    /\ Send(c, [route |-> "list", user |-> UserOf(c)])
    /\ IF ~Authenticated(c)
       THEN Reply(c, AuthRequired)
       ELSE \E order \in DateDescOrders(SelectSeq(db.session,
                                LAMBDA r : r.user_id = sess[c].user_id)) :
               Reply(c, Response(200, [sessions |-> get_user_sessions(sess[c].user_id, order)]))
    /\ UNCHANGED <<storeVars, authVars, wordVars>>

(***************************************************************************)
(* Inputs.                                                                 *)
(***************************************************************************)
Usernames == {"alice", "bob"}
Passwords == {"secret123", "wrong"}
Levels    == {"beginner", "intermediate", "proficient", "expert"}

\* word records a client submits; one lacks its example
WordRec(l, w) == [letter |-> l, word |-> w, meaning |-> "meaning", example |-> "example"]

WordsAB == <<WordRec("A", "Apple"), WordRec("B", "Brave")>>
WordsBA == <<WordRec("B", "Bold"), WordRec("A", "Apple")>>
WordsBad == <<WordRec("A", "Apple"), [letter |-> "B", word |-> "Brave", meaning |-> "meaning"]>>

\* quiz lists a client submits
QuizEmpty == JList(<<>>)
QuizTwo ==
    JList(<<JObj([question |-> JStr("A"), answer |-> JStr("Apple"), correct |-> JTrue]),
            JObj([question |-> JStr("B"), answer |-> JNull, correct |-> JFalse])>>)

\* bodies of POST /api/sessions: two complete ones, and one without each
\* of mode, a word's example, quiz and words
StorePayloads ==
    {[mode |-> "beginner", scorePercent |-> 80, words |-> WordsAB, quiz |-> QuizTwo],
     [mode |-> "proficient", scorePercent |-> 55, words |-> WordsBA, quiz |-> QuizEmpty],
     [scorePercent |-> 80, words |-> WordsAB, quiz |-> QuizTwo],
     [mode |-> "beginner", scorePercent |-> 80, words |-> WordsBad, quiz |-> QuizTwo],
     [mode |-> "beginner", scorePercent |-> 80, words |-> WordsAB],
     [mode |-> "beginner", scorePercent |-> 80, quiz |-> QuizTwo]}

\* the longest words list submitted
MaxWords == 2

\* bodies of POST /api/sessions that differ in mode and score
Scores == {75, 80, 85}

StatsPayloads ==
    {[mode |-> m, scorePercent |-> p, words |-> <<>>, quiz |-> QuizEmpty] :
        m \in {"beginner", "intermediate"}, p \in Scores}

\* bodies of POST /api/sessions inside and outside the data model of a
\* session: an unknown mode, a score above 100, a negative score
ModelPayloads ==
    {[mode |-> "beginner", scorePercent |-> 80, words |-> <<>>, quiz |-> QuizEmpty],
     [mode |-> "expert", scorePercent |-> 80, words |-> <<>>, quiz |-> QuizEmpty],
     [mode |-> "proficient", scorePercent |-> 150, words |-> <<>>, quiz |-> QuizEmpty],
     [mode |-> "intermediate", scorePercent |-> -5, words |-> <<>>, quiz |-> QuizEmpty]}

Init ==
    /\ users = <<>>
    /\ sess = [c \in Clients |-> NoSession]
    /\ req = [c \in Clients |-> [route |-> "none", user |-> 0]]
    /\ resp = [c \in Clients |-> NoResponse]
    /\ wpc = "idle"
    /\ wclient = "c1"
    /\ level = "beginner"
    /\ letterIdx = 1
    /\ potential_words = <<>>
    /\ candIdx = 1
    /\ words_list = <<>>
    /\ calls = <<>>
    /\ db = [session |-> <<>>, word |-> <<>>, quiz |-> <<>>]
    /\ conn = [c \in Clients |-> [pc |-> "closed"]]
    /\ created = <<>>
    /\ now = 0

(***************************************************************************)
(* SpecWords: one client registers, logs in and out, and requests word     *)
(* sets; the services answer each call as they like.                       *)
(***************************************************************************)
NextWords ==
    \/ register("c1", "alice", "secret123")
    \/ InsertUser("c1", TRUE)
    \/ login("c1", "alice", "secret123")
    \/ logout("c1")
    \/ \E lvl \in Levels : get_words("c1", lvl)
    \/ \E r \in CandidateResponses(letter) : FetchCandidates(r)
    \/ \E r \in LookupResponses(Word(Lower(letter), candIdx)) : Probe(r)
    \/ \E r \in LookupResponses(fallback_words(letter)) : Fallback(r)

SpecWords == Init /\ [][NextWords]_vars

(***************************************************************************)
(* Properties of the word-set build.                                       *)
(***************************************************************************)
Last(seq) == seq[Len(seq)]

LettersIn(list) == {list[i].letter : i \in 1..Len(list)}

\* the loop has finished with letter number i
Processed(i) ==
    \/ wpc \in {"candidates", "probe", "fallback", "error"} /\ i < letterIdx
    \/ wpc = "done" /\ i <= letterIdx

\* the calls made for letter l, in order
CallsOf(l) == SelectSeq(calls, LAMBDA call : call.letter = l)

LookupsOf(l) == SelectSeq(calls, LAMBDA call : call.letter = l /\ call.svc = "lookup")

\* the fallback word of l was looked up and the lookup returned None
FallbackFailed(l) ==
    \E k \in 1..Len(calls) :
        /\ calls[k].svc = "lookup"
        /\ calls[k].letter = l
        /\ calls[k].word = fallback_words(l)
        /\ calls[k].out = "none"

\* the sequence a completed build returned to its client
Returned == resp[wclient].body.json

HasReturned ==
    wpc = "done" /\ resp[wclient].status = 200 /\ "json" \in DOMAIN resp[wclient].body

AlphabeticalRecords(list) ==
    /\ \A i \in 1..Len(list) :
        /\ \E k \in 1..Len(Letters) : list[i].letter = Letters[k]
        /\ list[i].word[2] = list[i].letter
    /\ \A i, j \in 1..Len(list) :
        i < j => LetterPos(list[i].letter) < LetterPos(list[j].letter)

\* C1: whatever the services answer, the list being built and the list
\* returned hold records whose letter is the upper-case letter they were
\* resolved for (the first character of the capitalized word), in strictly
\* increasing alphabetical order, hence at most one record per letter; and
\* the list returned is the list built.
C1_OrderedOnePerLetter ==
    /\ AlphabeticalRecords(words_list)
    /\ HasReturned => Returned = words_list /\ AlphabeticalRecords(Returned)

\* C1 witness: a build has returned a record for every letter
C1_Witness == HasReturned /\ Len(Returned) = NumLetters

\* C2: a letter the loop has finished with and that has no record is a letter
\* whose fallback word was looked up, the lookup returning None; so an empty
\* or failed candidate query never omits a letter by itself.
C2_OmittedOnlyAfterFallback ==
    \A i \in 1..Len(Letters) :
        Processed(i) /\ Letters[i] \notin LettersIn(words_list)
            => FallbackFailed(Letters[i])

\* C2 witness: the build returned without letter A, whose candidate query
\* gave no candidate (one candidate call and one lookup, the fallback's)
C2_Witness ==
    /\ HasReturned
    /\ "A" \notin LettersIn(Returned)
    /\ Len(CallsOf("A")) = 2

\* C3: once the fallback lookup of a letter has returned None the loop has
\* finished with the letter, leaving no record for it; a lookup that
\* returned None never ends the build in an error; and every letter for which
\* a lookup returned a record has its record in the list (returned, when the
\* build is done).
C3_FailedLetterAbsentBuildGoesOn ==
    /\ \A i \in 1..Len(Letters) :
        /\ FallbackFailed(Letters[i])
            => Processed(i) /\ Letters[i] \notin LettersIn(words_list)
        /\ (\E k \in 1..Len(calls) :
                calls[k].letter = Letters[i] /\ calls[k].out = "record")
            => Letters[i] \in LettersIn(words_list)
    /\ wpc = "error" => Last(calls).out # "none"
    /\ HasReturned => Returned = words_list

\* C3 witness: the build returned; for letter A all of the first 5
\* candidates and the fallback were looked up and failed; B has its record
C3_Witness ==
    /\ HasReturned
    /\ Len(LookupsOf("A")) = ProbeLimit + 1
    /\ FallbackFailed("A")
    /\ LettersIn(Returned) = {"B"}

\* the calls made for a letter: one candidate query, then lookups of the
\* candidates 1, 2, ... in the returned order, at most ProbeLimit of them,
\* each but the last returning None, then the fallback's lookup only if
\* every candidate lookup returned None
WellFormedCalls(l) ==
    LET cs == CallsOf(l)
        ls == LookupsOf(l)
    IN  /\ Len(cs) > 0 => cs[1].svc = "candidates"
        /\ \A k \in 2..Len(cs) : cs[k].svc = "lookup"
        /\ Len(ls) <= ProbeLimit + 1
        /\ \A k \in 1..Len(ls) :
            /\ k < Len(ls) => ls[k].out = "none"
            /\ \/ ls[k].word = Word(Lower(l), k) /\ k <= ProbeLimit
               \/ ls[k].word = fallback_words(l) /\ k = Len(ls)

\* C4: per letter at most one candidate query and at most ProbeLimit + 1
\* lookups; the candidates looked up are the first ProbeLimit at most, in
\* their returned order, and nothing is looked up after a lookup that
\* succeeded; the record kept for the letter is the record of that lookup.
C4_FirstFiveInOrderStopAtSuccess ==
    \A i \in 1..Len(Letters) :
        LET l == Letters[i] IN
        /\ WellFormedCalls(l)
        /\ \A k \in 1..Len(LookupsOf(l)) :
            LookupsOf(l)[k].out = "record" =>
                \E n \in 1..Len(words_list) :
                    /\ words_list[n].letter = l
                    /\ words_list[n].word = capitalize(LookupsOf(l)[k].word)

\* C4 witness: the source returned more than ProbeLimit candidates, the
\* first ProbeLimit were looked up and failed, and the fallback is next
C4_Witness ==
    /\ wpc = "fallback"
    /\ Len(potential_words) > ProbeLimit
    /\ Len(LookupsOf(letter)) = ProbeLimit

\* C5 (as claimed): no failure of an external service surfaces; the build
\* never ends in an error response
C5_NeverSurfaced == wpc # "error" /\ \A c \in Clients : resp[c].status # 500

(***************************************************************************)
(* SpecStore: alice on client c1 and bob on client c2 register, log in,    *)
(* submit sessions (statement by statement, sqlite failing where it may)   *)
(* and read session details.                                               *)
(***************************************************************************)
SaveSteps(c) ==
    \/ \E stored \in BOOLEAN : InsertSession(c, stored)
    \/ \E n \in 0..MaxWords : InsertWords(c, n)
    \/ \E stored \in BOOLEAN : InsertQuiz(c, stored)
    \/ \E stored \in BOOLEAN : Commit(c, stored)
    \/ close_db(c)

NextStore ==
    \/ register("c1", "alice", "secret123")
    \/ register("c2", "bob", "secret123")
    \/ \E c \in Clients : InsertUser(c, TRUE)
    \/ login("c1", "alice", "secret123")
    \/ login("c2", "bob", "secret123")
    \/ \E c \in Clients, data \in StorePayloads : save_session(c, data)
    \/ \E c \in Clients : SaveSteps(c)
    \/ \E c \in Clients, id \in 1..(MaxSessions + 1) : get_session_detail(c, id)

SpecStore == Init /\ [][NextStore]_vars

(***************************************************************************)
(* SpecStats: one client registers and logs in as alice or bob, submits    *)
(* sessions of several modes and scores, and reads the statistics.         *)
(***************************************************************************)
NextStats ==
    \/ \E u \in Usernames : register("c1", u, "secret123")
    \/ InsertUser("c1", TRUE)
    \/ \E u \in Usernames : login("c1", u, "secret123")
    \/ \E data \in StatsPayloads : save_session("c1", data)
    \/ SaveSteps("c1")
    \/ get_tracking_data("c1")

SpecStats == Init /\ [][NextStats]_vars

(***************************************************************************)
(* Properties of the session store.                                        *)
(***************************************************************************)
RowsOf(table, id) == SelectSeq(table, LAMBDA r : r.session_id = id)

\* the payload has every field save_session_data reads
Complete(data) ==
    /\ SessionFields \subseteq DOMAIN data
    /\ "words" \in DOMAIN data
    /\ \A i \in 1..Len(data.words) : WordFields \subseteq DOMAIN data.words[i]
    /\ "quiz" \in DOMAIN data

\* the committed rows of session i are those of the submission e
PersistedWhole(i, e) ==
    /\ Complete(e.data)
    /\ db.session[i].id = i
    /\ db.session[i].user_id = e.user
    /\ db.session[i].mode = e.data.mode
    /\ db.session[i].score_percent = e.data.scorePercent
    /\ Len(RowsOf(db.word, i)) = Len(e.data.words)
    /\ \A k \in 1..Len(e.data.words) :
        /\ RowsOf(db.word, i)[k].letter = e.data.words[k].letter
        /\ RowsOf(db.word, i)[k].word_text = e.data.words[k].word
        /\ RowsOf(db.word, i)[k].meaning = e.data.words[k].meaning
        /\ RowsOf(db.word, i)[k].example = e.data.words[k].example
    /\ Len(RowsOf(db.quiz, i)) = 1

\* C6: what a reader can see is exactly the sessions whose transaction
\* committed, each with its header, all its word rows and its quiz row, and
\* no row of anything else; a save answered 201 is one of them; a save whose
\* payload lacks a field is answered with an error (500).
C6_AtomicCreate ==
    /\ Len(db.session) = Len(created)
    /\ \A i \in 1..Len(db.session) : PersistedWhole(i, created[i])
    /\ \A k \in 1..Len(db.word) : db.word[k].session_id \in 1..Len(db.session)
    /\ \A k \in 1..Len(db.quiz) : db.quiz[k].session_id \in 1..Len(db.session)
    /\ \A c \in Clients :
        req[c].route = "save" /\ resp[c] # NoResponse =>
            /\ resp[c].status \in {201, 401, 500}
            /\ resp[c].status = 401 <=> req[c].user = 0
            /\ resp[c].status = 201 =>
                \E i \in 1..Len(created) :
                    created[i] = [user |-> req[c].user, data |-> req[c].data]
            /\ ~Complete(req[c].data) => resp[c].status # 201

\* C6 witness: a save without its quiz (the header and the word rows were
\* inserted before the KeyError) was answered 500 and the request is over,
\* while the store holds another session
C6_Witness ==
    \E c \in Clients :
        /\ req[c].route = "save"
        /\ req[c].user # 0
        /\ SessionFields \cup {"words"} \subseteq DOMAIN req[c].data
        /\ "quiz" \notin DOMAIN req[c].data
        /\ resp[c].status = 500
        /\ Len(db.session) > 0

\* C7 (as claimed): a detail read by the owner returns the words and the
\* quiz as they were submitted: same records, same field names, same order
C7_RoundTripIdentical ==
    \A c \in Clients :
        req[c].route = "detail" /\ resp[c].status = 200 =>
            /\ resp[c].body.detail.words = created[req[c].id].data.words
            /\ resp[c].body.detail.quiz = created[req[c].id].data.quiz

\* what does hold of the round trip: the same values in the same order and
\* the same quiz, with the word under the key word_text
RoundTripRenamed ==
    \A c \in Clients :
        req[c].route = "detail" /\ resp[c].status = 200 =>
            LET got  == resp[c].body.detail
                sent == created[req[c].id].data
            IN  /\ Len(got.words) = Len(sent.words)
                /\ \A k \in 1..Len(sent.words) :
                    got.words[k] = [letter |-> sent.words[k].letter,
                                    word_text |-> sent.words[k].word,
                                    meaning |-> sent.words[k].meaning,
                                    example |-> sent.words[k].example]
                /\ got.quiz = sent.quiz

\* the session exists and user_id owns it
Owns(user_id, session_id) ==
    \E i \in 1..Len(db.session) :
        db.session[i].id = session_id /\ db.session[i].user_id = user_id

\* C8: an authenticated detail request for a session its user does not own,
\* whether the id exists or not, is answered by the one NotFound response;
\* any other answer is a 200 carrying the requested session, which the
\* requesting user owns.
C8_NotOwnedIsNotFound ==
    \A c \in Clients :
        req[c].route = "detail" /\ req[c].user # 0 /\ resp[c] # NoResponse =>
            /\ ~Owns(req[c].user, req[c].id) => resp[c] = NotFound
            /\ resp[c] # NotFound =>
                /\ Owns(req[c].user, req[c].id)
                /\ resp[c].status = 200
                /\ resp[c].body.detail.id = req[c].id
                /\ created[req[c].id].user = req[c].user
                /\ resp[c].body.detail.mode = created[req[c].id].data.mode

\* C8 witness: a detail request for an existing session of another user was
\* answered NotFound
C8_Witness ==
    \E c \in Clients :
        /\ req[c].route = "detail"
        /\ req[c].user # 0
        /\ resp[c] = NotFound
        /\ \E i \in 1..Len(db.session) :
            db.session[i].id = req[c].id /\ db.session[i].user_id # req[c].user

(***************************************************************************)
(* Properties of the statistics.                                           *)
(***************************************************************************)
Tiers == {"beginner", "intermediate", "proficient"}

\* the committed sessions of user u in mode t
SessionsOf(u, t) ==
    {i \in 1..Len(db.session) : db.session[i].user_id = u /\ db.session[i].mode = t}

RECURSIVE TotalScore(_)
TotalScore(ids) ==
    IF ids = {} THEN 0
    ELSE LET i == CHOOSE x \in ids : TRUE IN
         db.session[i].score_percent + TotalScore(ids \ {i})

Abs(x) == IF x < 0 THEN -x ELSE x

\* the request of c is the latest anyone has sent
LatestRequest(c) == \A d \in Clients \ {c} : req[d].route = "none"

\* a statistics mapping has the three tiers, with natural numbers
WellShaped(stats) ==
    /\ DOMAIN stats = Tiers
    /\ \A t \in Tiers : DOMAIN stats[t] = {"average", "count"}
    /\ \A t \in Tiers : stats[t].average \in Nat /\ stats[t].count \in Nat

\* C9: in every state and for every user id, registered or not,
\* get_tracking_stats gives exactly the three tiers, each with a natural
\* average and count, and average 0 and count 0 for a tier without a session
\* of the user; so does every answer of GET /api/track.
C9_ThreeTiersZeroWhenEmpty ==
    /\ \A u \in 1..(Len(users) + 1) :
        /\ WellShaped(get_tracking_stats(u))
        /\ \A t \in Tiers :
            SessionsOf(u, t) = {} =>
                get_tracking_stats(u)[t] = [average |-> 0, count |-> 0]
    /\ \A c \in Clients :
        req[c].route = "track" /\ resp[c].status = 200 =>
            /\ WellShaped(resp[c].body.stats)
            /\ \A t \in Tiers :
                SessionsOf(req[c].user, t) = {} =>
                    resp[c].body.stats[t] = [average |-> 0, count |-> 0]

\* C9 witness: the statistics were answered to a user with sessions in one
\* tier and none in the two others
C9_Witness ==
    \E c \in Clients :
        /\ req[c].route = "track"
        /\ resp[c].status = 200
        /\ resp[c].body.stats["beginner"].count > 0
        /\ resp[c].body.stats["intermediate"].count = 0
        /\ SessionsOf(req[c].user, "proficient") = {}

\* stats is the count of the sessions ids and their mean rounded to the
\* nearest integer, a tie going to the even one
CountAndMean(stats, ids) ==
    LET n == Cardinality(ids)
        d == Abs(stats.average * n - TotalScore(ids))
    IN  /\ stats.count = n
        /\ n = 0 => stats.average = 0
        /\ 2 * d <= n
        /\ 2 * d = n /\ n > 0 => stats.average % 2 = 0

\* C10: for every user u and tier t the entry of t in get_tracking_stats(u)
\* is the number of u's committed sessions of mode t and their mean score
\* rounded to the nearest integer (a tie to the even one), whatever other
\* users and other modes hold; and so is the answer of GET /api/track while
\* it is the latest request.
C10_CountAndRoundedMean ==
    /\ \A u \in 1..Len(users), t \in Tiers :
        CountAndMean(get_tracking_stats(u)[t], SessionsOf(u, t))
    /\ \A c \in Clients :
        req[c].route = "track" /\ resp[c].status = 200 /\ LatestRequest(c) =>
            \A t \in Tiers :
                CountAndMean(resp[c].body.stats[t], SessionsOf(req[c].user, t))

\* C10 witness: a user with beginner sessions of 80 and 85 was answered
\* average 82 (the tie 82.5) and count 2, while another user has a session
C10_Witness ==
    \E c \in Clients :
        /\ req[c].route = "track"
        /\ resp[c].status = 200
        /\ resp[c].body.stats["beginner"] = [average |-> 82, count |-> 2]
        /\ \E i \in 1..Len(db.session) : db.session[i].user_id # req[c].user

(***************************************************************************)
(* SpecAuth: two clients register (the SELECT and the INSERT of one        *)
(* request interleave with the other's), log in and out and ask who they   *)
(* are; an INSERT may fail.                                                *)
(***************************************************************************)
NextAuth ==
    \/ \E c \in Clients, u \in Usernames \cup {""}, p \in Passwords : register(c, u, p)
    \/ \E c \in Clients, stored \in BOOLEAN : InsertUser(c, stored)
    \/ \E c \in Clients, u \in Usernames, p \in Passwords : login(c, u, p)
    \/ \E c \in Clients : logout(c)
    \/ \E c \in Clients : check_auth(c)

SpecAuth == Init /\ [][NextAuth]_vars

(***************************************************************************)
(* Properties of the authentication.                                       *)
(***************************************************************************)
\* C11: a register request for a username that a user row already holds is
\* answered 409 in that step, and the step leaves the user table as it was
\* (no new row, every password hash as before) and opens no connection that
\* could write later.
C11_TakenUsernameConflicts ==
    [][\A c \in Clients, u \in Usernames, p \in Passwords :
         register(c, u, p) /\ UserIds(u) # {} =>
            /\ resp'[c].status = 409
            /\ users' = users
            /\ conn'[c] = Closed]_vars

\* C11 witness: a registration of a taken username with another password
\* than the holder's was answered 409
C11_Witness ==
    \E c \in Clients :
        /\ req[c].route = "register"
        /\ resp[c].status = 409
        /\ \E i \in UserIds(req[c].username) :
            ~check_password_hash(users[i].password, req[c].password)

IncorrectUsername == Response(401, [error |-> "Incorrect username."])
IncorrectPassword == Response(401, [error |-> "Incorrect password."])

\* C12: a login with a username no user row holds is answered 401
\* "Incorrect username.", a login with a registered username and a password
\* that does not match its hash is answered 401 "Incorrect password."; the
\* two answers differ, and either step leaves every session cookie as it was.
C12_FailedLoginMessages ==
    [][\A c \in Clients, u \in Usernames, p \in Passwords :
         login(c, u, p) =>
            /\ IncorrectUsername # IncorrectPassword
            /\ UserIds(u) = {} =>
                resp'[c] = IncorrectUsername /\ sess' = sess
            /\ (UserIds(u) # {}
                  /\ \A i \in UserIds(u) : ~check_password_hash(users[i].password, p)) =>
                resp'[c] = IncorrectPassword /\ sess' = sess]_vars

\* C12 witness: a client without identity got "Incorrect password." and has
\* no identity, while another got "Incorrect username."
C12_Witness ==
    \E c, d \in Clients :
        /\ req[c].route = "login"
        /\ resp[c] = IncorrectPassword
        /\ ~Authenticated(c)
        /\ req[d].route = "login"
        /\ resp[d] = IncorrectUsername

NextList ==
    \/ register("c1", "alice", "secret123")
    \/ InsertUser("c1", TRUE)
    \/ login("c1", "alice", "secret123")
    \/ \E data \in ModelPayloads : save_session("c1", data)
    \/ SaveSteps("c1")
    \/ Tick
    \/ get_sessions("c1")

SpecList == Init /\ [][NextList]_vars

\* C14 (as claimed): in every answer of GET /api/sessions a session that
\* was created later (it has the larger id) comes before one created earlier
C14_NewestFirst ==
    \A c \in Clients :
        req[c].route = "list" /\ resp[c].status = 200 =>
            \A i, j \in 1..Len(resp[c].body.sessions) :
                i < j => resp[c].body.sessions[i].id > resp[c].body.sessions[j].id

\* what does hold of the list: it is the user's sessions, each once, the
\* later second first
ListedByDate ==
    \A c \in Clients :
        req[c].route = "list" /\ resp[c].status = 200 =>
            LET listed == resp[c].body.sessions IN
            /\ \A i, j \in 1..Len(listed) : listed[i].id = listed[j].id => i = j
            /\ \A i \in 1..Len(listed) : db.session[listed[i].id].user_id = req[c].user
            /\ \A i, j \in 1..Len(listed) :
                i < j => db.session[listed[i].id].date >= db.session[listed[j].id].date

\* C20 (as claimed): every committed session has a mode among the three
\* tiers and an integer score from 0 to 100
C20_PersistedSessionInModel ==
    \A i \in 1..Len(db.session) :
        /\ db.session[i].mode \in Tiers
        /\ db.session[i].score_percent \in 0..100

(***************************************************************************)
(* The unknown level (checked under SpecWords).                            *)
(***************************************************************************)
CandidateCalls == SelectSeq(calls, LAMBDA call : call.svc = "candidates")

\* C15: while the build of a request whose level is none of the three tiers
\* runs and after it, every candidate query it has issued is the query a
\* beginner request issues for that letter: the letter's pattern, metadata
\* f and the ceiling 1000.  (The build reads the level nowhere else, and the
\* services answer a call of any level with any of the same responses.)
C15_UnknownLevelIsBeginner ==
    level \notin Tiers =>
        \A k \in 1..Len(CandidateCalls) :
            /\ CandidateCalls[k].query = api_params(CandidateCalls[k].letter, "beginner")
            /\ CandidateCalls[k].query.max = 1000

\* C15 witness: a request of level expert has ended with a record for every
\* letter, after a candidate query for each
C15_Witness ==
    /\ level = "expert"
    /\ HasReturned
    /\ Len(Returned) = NumLetters
    /\ Len(CandidateCalls) = NumLetters

(***************************************************************************)
(* SpecLookup: the build with one candidate per letter and entries of the  *)
(* definitions service of several shapes: one or two meanings, one or two  *)
(* definitions each, a definition with or without an example, the example  *)
(* possibly the very text "No example sentence found.".                    *)
(***************************************************************************)
\* the positions (meaning, definition) of a 2 x 2 entry and of a 1 x 1 entry
Positions2x2 == {<<1, 1>>, <<1, 2>>, <<2, 1>>, <<2, 2>>}
Positions1x1 == {<<1, 1>>}

ExampleKinds == {"absent", "own", "literal"}

\* which definitions carry an example: any of absent and own, and at most
\* one example with the literal text
ExampleLayouts(positions) ==
    {layout \in [positions -> ExampleKinds] :
        Cardinality({pos \in positions : layout[pos] = "literal"}) <= 1}

DefinitionAt(pos, kind) ==
    LET text == JStr(<<"definition", "", 10 * pos[1] + pos[2]>>) IN
    IF kind = "absent" THEN JObj([definition |-> text])
    ELSE JObj([definition |-> text,
               example |-> IF kind = "own"
                           THEN JStr(<<"example", "", 10 * pos[1] + pos[2]>>)
                           ELSE NoExample])

EntryOf(layout, nMeanings, nDefinitions) ==
    JObj([meanings |->
            JList([m \in 1..nMeanings |->
                JObj([definitions |->
                        JList([d \in 1..nDefinitions |->
                                  DefinitionAt(<<m, d>>, layout[<<m, d>>])])])])])

LookupEntries ==
    {EntryOf(layout, 2, 2) : layout \in ExampleLayouts(Positions2x2)}
    \cup {EntryOf(layout, 1, 1) : layout \in ExampleLayouts(Positions1x1)}

\* the answers of the definitions service: an entry, or a failure
EntryResponses ==
    {HttpOk(JList(<<entry>>)) : entry \in LookupEntries}
    \cup {TransportError, HttpOk(JList(<<>>)),
          HttpOk(JList(<<JObj([meanings |-> JList(<<JObj([definitions |-> JList(<<>>)])>>)])>>))}

NextLookup ==
    \/ register("c1", "alice", "secret123")
    \/ InsertUser("c1", TRUE)
    \/ login("c1", "alice", "secret123")
    \/ get_words("c1", "beginner")
    \/ FetchCandidates(HttpOk(JList(<<Candidate(letter, 1)>>)))
    \/ \E r \in EntryResponses : Probe(r)
    \/ \E r \in EntryResponses : Fallback(r)

SpecLookup == Init /\ [][NextLookup]_vars

\* the positions of the definitions of an entry
PositionsOf(entry) ==
    {pos \in Positions2x2 :
        /\ pos[1] <= Len(entry.v.meanings.v)
        /\ pos[2] <= Len(entry.v.meanings.v[pos[1]].v.definitions.v)}

\* the order of the scan: meanings in order, the definitions of each in order
ScannedBefore(p, q) == p[1] < q[1] \/ (p[1] = q[1] /\ p[2] <= q[2])

DefinitionIn(entry, pos) == entry.v.meanings.v[pos[1]].v.definitions.v[pos[2]]

\* the positions of the definitions that carry an example
Carrying(entry) ==
    {pos \in PositionsOf(entry) : "example" \in DOMAIN DefinitionIn(entry, pos).v}

\* the example the claim expects: that of the first carrying definition
FirstExample(entry) ==
    IF Carrying(entry) = {} THEN NoExample
    ELSE LET first == CHOOSE p \in Carrying(entry) :
                        \A q \in Carrying(entry) : ScannedBefore(p, q)
         IN  DefinitionIn(entry, first).v.example

\* the step looks the word up with this response and appends a record
LooksUp(response) ==
    /\ Probe(response) \/ Fallback(response)
    /\ Len(words_list') = Len(words_list) + 1

\* C16 (as claimed): the record appended for an entry has the definition of
\* the first definition of the first meaning as its meaning and the example
\* of the first definition in scan order that carries one, whatever its
\* text, as its example; the literal only if no definition carries one
C16_FirstMeaningFirstExample ==
    [][\A entry \in LookupEntries :
         LooksUp(HttpOk(JList(<<entry>>))) =>
            /\ Last(words_list').meaning = DefinitionIn(entry, <<1, 1>>).v.definition
            /\ Last(words_list').example = FirstExample(entry)
            /\ Last(words_list').example = NoExample =>
                \/ Carrying(entry) = {}
                \/ FirstExample(entry) = NoExample]_vars

\* what does hold: the same, for the entries in which no example has the
\* literal text
FirstExampleUnlessLiteral ==
    [][\A entry \in LookupEntries :
         (/\ LooksUp(HttpOk(JList(<<entry>>)))
          /\ \A pos \in Carrying(entry) : DefinitionIn(entry, pos).v.example # NoExample) =>
            /\ Last(words_list').meaning = DefinitionIn(entry, <<1, 1>>).v.definition
            /\ Last(words_list').example = FirstExample(entry)]_vars

(***************************************************************************)
(* SpecApp: every endpoint.  Client c1 registers, logs in as alice or bob, *)
(* logs out, asks who it is, requests word sets (the candidate source is   *)
(* down, the fallback word is found), submits sessions and reads lists,    *)
(* details and statistics, with or without a session identity; client c2   *)
(* logs in and out as bob meanwhile.                                       *)
(***************************************************************************)
QuizOne == JList(<<JObj([answer |-> JStr("Apple"), correct |-> JTrue])>>)

AppPayloads ==
    {[mode |-> "beginner", scorePercent |-> 80, words |-> WordsAB, quiz |-> QuizOne],
     [mode |-> "beginner", scorePercent |-> 80, words |-> WordsAB]}

AppLevels == {"beginner"}

NextApp ==
    \/ \E u \in Usernames : register("c1", u, "secret123")
    \/ InsertUser("c1", TRUE)
    \/ \E u \in Usernames : login("c1", u, "secret123")
    \/ login("c2", "bob", "secret123")
    \/ \E c \in Clients : logout(c)
    \/ check_auth("c1")
    \/ \E lvl \in AppLevels : get_words("c1", lvl)
    \/ FetchCandidates(TransportError)
    \/ Fallback(HttpOk(JList(<<Entry(fallback_words(letter), TRUE)>>)))
    \/ \E data \in AppPayloads : save_session("c1", data)
    \/ SaveSteps("c1")
    \/ get_sessions("c1")
    \/ \E id \in 1..MaxSessions : get_session_detail("c1", id)
    \/ get_tracking_data("c1")

SpecApp == Init /\ [][NextApp]_vars

\* a request of c to a protected endpoint arrives in this step
ProtectedRequest(c) ==
    \/ \E lvl \in AppLevels : get_words(c, lvl)
    \/ \E data \in AppPayloads : save_session(c, data)
    \/ get_sessions(c)
    \/ \E id \in 1..MaxSessions : get_session_detail(c, id)
    \/ get_tracking_data(c)

\* C13: a request to one of the five protected endpoints that carries no
\* session identity is answered 401 "Authentication required." in the step
\* it arrives, and that step changes nothing else: no external call is
\* logged, no build starts, no connection opens, the tables, the users and
\* the cookies stay as they are.
C13_UnauthenticatedIs401NoEffect ==
    [][\A c \in Clients :
         ProtectedRequest(c) /\ ~Authenticated(c) =>
            /\ resp'[c] = AuthRequired
            /\ calls' = calls
            /\ UNCHANGED <<wordVars, storeVars, authVars>>]_vars

\* C13 witness: a request without identity for the detail of a session
\* that exists was answered 401
C13_Witness ==
    \E c \in Clients :
        /\ req[c].route = "detail"
        /\ req[c].user = 0
        /\ req[c].id <= Len(db.session)
        /\ resp[c] = AuthRequired

\* C17: no step changes or removes a committed session: its header, its
\* word rows and its quiz row are the same after the step, and so is the
\* detail its owner reads.
C17_CommittedSessionImmutable ==
    [][\A i \in 1..Len(db.session) :
         /\ i <= Len(db.session')
         /\ db.session'[i] = db.session[i]
         /\ RowsOf(db'.word, i) = RowsOf(db.word, i)
         /\ RowsOf(db'.quiz, i) = RowsOf(db.quiz, i)
         /\ SessionDetailsIn(db', db.session[i].user_id, i)
                = get_session_details(db.session[i].user_id, i)
         /\ ~IsNone(get_session_details(db.session[i].user_id, i))]_vars

\* C17 witness: alice's session 1 was followed by a session of bob, and its
\* detail is read after that
C17_Witness ==
    \E c \in Clients :
        /\ Len(db.session) >= 2
        /\ db.session[1].user_id # db.session[2].user_id
        /\ req[c].route = "detail"
        /\ req[c].id = 1
        /\ resp[c].status = 200

\* the cookie a successful login as username sets
IdentityOf(username) ==
    [user_id |-> CHOOSE i \in UserIds(username) : TRUE, username |-> username]

\* the credentials are those of a user row
ValidCredentials(username, password) ==
    \E i \in UserIds(username) : check_password_hash(users[i].password, password)

\* a step of the session identity of client c
IdentityStep(c) ==
    /\ \A u \in Usernames, p \in Passwords :
        login(c, u, p) =>
            sess'[c] = IF ValidCredentials(u, p) THEN IdentityOf(u) ELSE sess[c]
    /\ logout(c) => sess'[c] = NoSession
    /\ sess'[c] # sess[c] =>
        \/ \E u \in Usernames, p \in Passwords : login(c, u, p) /\ ValidCredentials(u, p)
        \/ logout(c)
    /\ check_auth(c) =>
        resp'[c].body = IF Authenticated(c)
                        THEN [isAuthenticated |-> TRUE, username |-> sess[c].username]
                        ELSE [isAuthenticated |-> FALSE]

\* the identity of c is what its last request made of the identity it was
\* sent with
IdentityAnswered(c) ==
    /\ Authenticated(c) =>
        /\ DOMAIN sess[c] = {"user_id", "username"}
        /\ sess[c].user_id \in UserIds(sess[c].username)
    /\ IF req[c].route = "login" /\ resp[c].status = 200
       THEN sess[c] = IdentityOf(req[c].username)
       ELSE IF req[c].route = "logout"
       THEN sess[c] = NoSession
       ELSE UserOf(c) = req[c].user
    /\ req[c].route = "check_auth" =>
        resp[c].body.isAuthenticated = Authenticated(c)

\* C18: the session identity of a client changes only in a step of its own
\* successful login, to exactly that user's id and username, and in a step
\* of its own logout, to none; every other step (failed login, register,
\* word-set build, sessions, statistics, the requests of other clients)
\* leaves it; check_auth answers the identity the client has.
C18_IdentityOnlyByLoginLogout ==
    /\ [](\A c \in Clients : IdentityAnswered(c))
    /\ [][\A c \in Clients : IdentityStep(c)]_vars

\* C18 witness: a client that had the identity of one user logged in as
\* another and has that one's identity
C18_Witness ==
    \E c \in Clients :
        /\ req[c].route = "login"
        /\ req[c].user # 0
        /\ resp[c].status = 200
        /\ sess[c].user_id # req[c].user

====
